---- MODULE Spec2Model ----
(***************************************************************************)
(* Model of the document endpoint of dual-gr-backend                       *)
(* (app/routers/api_pedidos_exame.py, app/services/ai_service.py,          *)
(* app/services/pdf_service.py), specification Spec; of the startup of     *)
(* the workers (app/main.py, app/db/init_db.py), specification             *)
(* SpecStartup; and of the registration of patients                        *)
(* (app/routers/api_auth.py), specification SpecRegister.                  *)
(*                                                                         *)
(* Python strings and byte strings are sequences of one-character tokens,  *)
(* so that lower(), strip(), the whitespace regex, startswith(), endswith()*)
(* and the substring test `k in s` are computed, not assumed.  The tokens  *)
(* "c,", "a~" and "a'" stand for the letters c-cedilla, a-tilde, a-acute.  *)
(* An Optional[str] is a record [some, s]; None is NoneStr.                *)
(***************************************************************************)
EXTENDS Integers, Sequences, FiniteSets, TLC

VARIABLES
    form,               \* the request of route ler: file fields, form fields, body
    env_key,            \* os.environ OPENAI_API_KEY (Optional[str])
    upload,             \* the UploadFile handed to _handle_request, or no upload
    text,               \* the text parameter of _handle_request (Optional[str])
    document_type,      \* the document_type parameter of _handle_request (Optional[str])
    original_filename,  \* the original_filename parameter (Optional[str])
    source,             \* the source parameter (Optional[str])
    pc,                 \* position of the handler
    filename,           \* local filename
    meta,               \* local meta dict (a function over the keys present)
    data,               \* local data, the bytes read from the upload
    pdf,                \* what PdfReader finds in data (set when the extractor runs)
    extracted_text,     \* local extracted_text
    doc_type,           \* local doc_type, "" while unresolved
    provider_out,       \* what the provider call produced (set when it is called)
    calls,              \* the outbound calls made so far, in order
    response,           \* the HTTP response of the request
    env_auto,           \* os.getenv("AUTO_CREATE_TABLES", "0") == "1"
    lock_file,          \* /tmp/dualgr_create_all.lock exists
    tables,             \* the tables of Base.metadata exist in the database
    painel_users,       \* rows of table painel_users with the admin CPF
    wpc,                \* position of each worker in on_startup
    wexc,               \* the exception on_startup ended with, per worker
    creators,           \* the workers that went on to create_all
    pacientes,          \* rows of table pacientes
    req,                \* the body of each register call
    rpc,                \* position of each register call
    rstatus             \* HTTP status of each register call, 0 while running

\* the state of one request to the document endpoint
handler_vars ==
    <<form, env_key, upload, text, document_type, original_filename, source, pc,
      filename, meta, data, pdf, extracted_text, doc_type, provider_out,
      calls, response>>

\* the state of the workers' startup
startup_vars ==
    <<env_auto, lock_file, tables, painel_users, wpc, wexc, creators>>

\* the state of the register calls
register_vars == <<pacientes, req, rpc, rstatus>>

vars == <<handler_vars, startup_vars, register_vars>>

-----------------------------------------------------------------------------
(* Bounds of the model *)

\* number of workers the server starts
NumWorkers == 2

\* number of register calls in flight
NumRequests == 2

\* largest number of pages of an uploaded PDF
MaxPages == 2

-----------------------------------------------------------------------------
(* Python string primitives *)

NoneStr == [some |-> FALSE, s |-> <<>>]

Some(s) == [some |-> TRUE, s |-> s]

\* `x or ""`
OrEmpty(o) == IF o.some THEN o.s ELSE <<>>

\* truthiness of an Optional[str]
Truthy(o) == o.some /\ o.s # <<>>

Whitespace == {" ", "\t", "\n"}

UpperAZ == <<"A", "B", "C", "D", "E", "F", "G", "H", "I", "J", "K", "L", "M",
             "N", "O", "P", "Q", "R", "S", "T", "U", "V", "W", "X", "Y", "Z">>

LowerAZ == <<"a", "b", "c", "d", "e", "f", "g", "h", "i", "j", "k", "l", "m",
             "n", "o", "p", "q", "r", "s", "t", "u", "v", "w", "x", "y", "z">>

LowerChar(c) ==
    IF \E i \in 1..26 : UpperAZ[i] = c
    THEN LowerAZ[CHOOSE i \in 1..26 : UpperAZ[i] = c]
    ELSE c

\* str.lower()
Lower(s) == [i \in 1..Len(s) |-> LowerChar(s[i])]

RECURSIVE LStrip(_)
LStrip(s) ==
    IF s # <<>> /\ Head(s) \in Whitespace THEN LStrip(Tail(s)) ELSE s

RECURSIVE RStrip(_)
RStrip(s) ==
    IF s # <<>> /\ s[Len(s)] \in Whitespace
    THEN RStrip(SubSeq(s, 1, Len(s) - 1))
    ELSE s

\* str.strip()
Strip(s) == RStrip(LStrip(s))

\* re.sub(r"\s+", " ", s): every maximal run of whitespace becomes one space
RECURSIVE CollapseWs(_)
CollapseWs(s) ==
    IF s = <<>> THEN <<>>
    ELSE IF Head(s) \in Whitespace
         THEN <<" ">> \o CollapseWs(LStrip(s))
         ELSE <<Head(s)>> \o CollapseWs(Tail(s))

\* `k in s` for strings
Contains(s, k) ==
    \E i \in 0..(Len(s) - Len(k)) : SubSeq(s, i + 1, i + Len(k)) = k

\* s.startswith(k)
StartsWith(s, k) == Len(s) >= Len(k) /\ SubSeq(s, 1, Len(k)) = k

\* s.endswith(k)
EndsWith(s, k) ==
    Len(s) >= Len(k) /\ SubSeq(s, Len(s) - Len(k) + 1, Len(s)) = k

\* n filler bytes
Pad(n) == [i \in 1..n |-> "0"]

-----------------------------------------------------------------------------
(* String literals of the source *)

S_pedido_exame == <<"p", "e", "d", "i", "d", "o", "_", "e", "x", "a", "m", "e">>
S_pedido_hyphen_exame == <<"p", "e", "d", "i", "d", "o", "-", "e", "x", "a", "m", "e">>
S_exame == <<"e", "x", "a", "m", "e">>
S_exames == <<"e", "x", "a", "m", "e", "s">>
S_pedido == <<"p", "e", "d", "i", "d", "o">>
S_receita == <<"r", "e", "c", "e", "i", "t", "a">>
S_rx == <<"r", "x">>
S_prescricao == <<"p", "r", "e", "s", "c", "r", "i", "c", "a", "o">>
S_prescricao_acc == <<"p", "r", "e", "s", "c", "r", "i", "c,", "a~", "o">>
S_solicitacao == <<"s", "o", "l", "i", "c", "i", "t", "a", "c", "a", "o">>
S_solicitacao_acc == <<"s", "o", "l", "i", "c", "i", "t", "a", "c,", "a~", "o">>
S_requisicao == <<"r", "e", "q", "u", "i", "s", "i", "c", "a", "o">>
S_requisicao_acc == <<"r", "e", "q", "u", "i", "s", "i", "c,", "a~", "o">>
S_receituario == <<"r", "e", "c", "e", "i", "t", "u", "a", "r", "i", "o">>
S_receituario_acc == <<"r", "e", "c", "e", "i", "t", "u", "a'", "r", "i", "o">>
S_pedido_de_exame == <<"p", "e", "d", "i", "d", "o", " ", "d", "e", " ", "e", "x", "a", "m", "e">>
S_solicitacao_de_exame == S_solicitacao \o <<" ", "d", "e", " ", "e", "x", "a", "m", "e">>
S_solicitacao_acc_de_exame == S_solicitacao_acc \o <<" ", "d", "e", " ", "e", "x", "a", "m", "e">>
S_exames_solicitados == <<"e", "x", "a", "m", "e", "s", " ", "s", "o", "l", "i", "c", "i", "t", "a", "d", "o", "s">>
S_requisicao_acc_de_exames == S_requisicao_acc \o <<" ", "d", "e", " ", "e", "x", "a", "m", "e", "s">>
S_requisicao_de_exames == S_requisicao \o <<" ", "d", "e", " ", "e", "x", "a", "m", "e", "s">>
S_posologia == <<"p", "o", "s", "o", "l", "o", "g", "i", "a">>
S_tomar == <<"t", "o", "m", "a", "r">>
S_mg == <<"m", "g">>
S_ml == <<"m", "l">>
S_crm == <<"c", "r", "m">>
S_dr == <<"d", "r">>
S_dra == <<"d", "r", "a">>
S_dot_pdf == <<".", "p", "d", "f">>
S_application_pdf == <<"a", "p", "p", "l", "i", "c", "a", "t", "i", "o", "n", "/", "p", "d", "f">>
S_image_jpeg == <<"i", "m", "a", "g", "e", "/", "j", "p", "e", "g">>
S_image_jpg == <<"i", "m", "a", "g", "e", "/", "j", "p", "g">>
S_image_png == <<"i", "m", "a", "g", "e", "/", "p", "n", "g">>
S_image_webp == <<"i", "m", "a", "g", "e", "/", "w", "e", "b", "p">>
S_documento == <<"d", "o", "c", "u", "m", "e", "n", "t", "o">>
PDF_MAGIC == <<"%", "P", "D", "F">>

-----------------------------------------------------------------------------
(* Helpers of api_pedidos_exame.py *)

\* _norm(s)
Norm(s) == Strip(CollapseWs(Lower(s)))

FilenamePedidoKw ==
    {S_pedido, S_exame, S_solicitacao, S_solicitacao_acc, S_requisicao,
     S_requisicao_acc}

FilenameReceitaKw ==
    {S_receita, S_receituario, S_receituario_acc, S_prescricao,
     S_prescricao_acc, S_rx}

pedido_kw ==
    {S_pedido_de_exame, S_solicitacao_de_exame, S_solicitacao_acc_de_exame,
     S_exames_solicitados, S_requisicao_acc_de_exames, S_requisicao_de_exames}

receita_kw ==
    {S_receituario, S_receituario_acc, S_prescricao, S_prescricao_acc,
     S_posologia, S_tomar}

\* GuessDocType with a fault: the body text is consulted before the filename
GuessDocType_BodyFirst(fname, txt) ==
    LET fn == Norm(fname)
        t  == Norm(txt)
    IN  IF \E k \in pedido_kw : Contains(t, k) THEN "pedido_exame"
        ELSE IF \E k \in receita_kw : Contains(t, k) THEN "receita"
        ELSE IF \E k \in FilenamePedidoKw : Contains(fn, k) THEN "pedido_exame"
        ELSE IF \E k \in FilenameReceitaKw : Contains(fn, k) THEN "receita"
        ELSE IF /\ (Contains(t, S_mg) \/ Contains(t, S_ml))
                /\ \/ Contains(t, S_crm)
                   \/ Contains(t, S_dr)
                   \/ Contains(t, S_dra)
                   \/ Contains(t, S_posologia)
             THEN "receita"
        ELSE "None"

\* GuessDocType with a fault: "hemograma" in the text means an exam
GuessDocType_Hemograma(fname, txt) ==
    LET fn == Norm(fname)
        t  == Norm(txt)
    IN  IF \E k \in FilenamePedidoKw : Contains(fn, k) THEN "pedido_exame"
        ELSE IF \E k \in FilenameReceitaKw : Contains(fn, k) THEN "receita"
        ELSE IF \E k \in pedido_kw \cup {<<"h", "e", "m", "o", "g", "r", "a", "m", "a">>} :
                   Contains(t, k)
             THEN "pedido_exame"
        ELSE IF \E k \in receita_kw : Contains(t, k) THEN "receita"
        ELSE "None"

\* _guess_doc_type(filename, text); "None" stands for Python's None
GuessDocType(fname, txt) ==
    LET fn == Norm(fname)
        t  == Norm(txt)
    IN  IF \E k \in FilenamePedidoKw : Contains(fn, k) THEN "pedido_exame"
        ELSE IF \E k \in FilenameReceitaKw : Contains(fn, k) THEN "receita"
        ELSE IF \E k \in pedido_kw : Contains(t, k) THEN "pedido_exame"
        ELSE IF \E k \in receita_kw : Contains(t, k) THEN "receita"
        ELSE IF /\ (Contains(t, S_mg) \/ Contains(t, S_ml))
                /\ \/ Contains(t, S_crm)
                   \/ Contains(t, S_dr)
                   \/ Contains(t, S_dra)
                   \/ Contains(t, S_posologia)
             THEN "receita"
        ELSE "None"

\* the aliases dict of _resolve_doc_type, as a set of <<key, value>> pairs
aliases ==
    {<<S_pedido_exame, "pedido_exame">>,
     <<S_pedido_hyphen_exame, "pedido_exame">>,
     <<S_exame, "pedido_exame">>,
     <<S_exames, "pedido_exame">>,
     <<S_pedido, "pedido_exame">>,
     <<S_receita, "receita">>,
     <<S_rx, "receita">>,
     <<S_prescricao, "receita">>,
     <<S_prescricao_acc, "receita">>}

\* dt in aliases
InAliases(dt) == \E a \in aliases : a[1] = dt

\* aliases[dt]
AliasOf(dt) == (CHOOSE a \in aliases : a[1] = dt)[2]

\* ResolveDocType with a fault: the heuristic guess is consulted before the hint
ResolveDocType_GuessFirst(dtopt, fname, txt) ==
    LET dt      == Norm(OrEmpty(dtopt))
        guessed == GuessDocType(fname, txt)
    IN  IF guessed \in {"pedido_exame", "receita"}
        THEN [ok |-> TRUE, value |-> guessed]
        ELSE IF InAliases(dt) THEN [ok |-> TRUE, value |-> AliasOf(dt)]
        ELSE [ok |-> FALSE, value |-> "None"]

\* ResolveDocType with a fault: an indeterminate guess falls back to the exam
\* category instead of raising
ResolveDocType_DefaultExam(dtopt, fname, txt) ==
    LET dt      == Norm(OrEmpty(dtopt))
        guessed == GuessDocType(fname, txt)
    IN  IF InAliases(dt) THEN [ok |-> TRUE, value |-> AliasOf(dt)]
        ELSE IF guessed \in {"pedido_exame", "receita"}
             THEN [ok |-> TRUE, value |-> guessed]
        ELSE [ok |-> TRUE, value |-> "pedido_exame"]

\* _resolve_doc_type(document_type, filename, extracted_text): the resolved type,
\* or ok = FALSE where the code raises HTTPException(422)
ResolveDocType(dtopt, fname, txt) ==
    LET dt      == Norm(OrEmpty(dtopt))
        guessed == GuessDocType(fname, txt)
    IN  IF InAliases(dt) THEN [ok |-> TRUE, value |-> AliasOf(dt)]
        ELSE IF guessed \in {"pedido_exame", "receita"}
             THEN [ok |-> TRUE, value |-> guessed]
        ELSE [ok |-> FALSE, value |-> "None"]

-----------------------------------------------------------------------------
(* HTTP responses *)

NoResponse == [kind |-> "none", status |-> 0]

\* raise HTTPException(status_code, detail)
HTTPException(status_code, detail) ==
    [kind |-> "http_error", status |-> status_code, detail |-> detail]

\* an exception that no handler of the application catches: the framework
\* answers 500 Internal Server Error
Unhandled(exc) == [kind |-> "unhandled", status |-> 500, exc |-> exc]

\* JSONResponse(status_code, content)
JSONResponse(status_code, content) ==
    [kind |-> "json", status |-> status_code, content |-> content]

DETAIL_NO_KEY == "OPENAI_API_KEY nao configurada no servidor (Render). Configure e faca redeploy."
DETAIL_REFUSED == "Documento recusado: a IA so le PEDIDOS DE EXAMES e RECEITAS. Envie apenas esses documentos."
DETAIL_REQUIRED == "Arquivo obrigatorio (file/pdf/arquivo/documento) ou campo 'text'."
DETAIL_EMPTY == "Arquivo vazio ou invalido."
DETAIL_NOT_PDF == "Arquivo nao parece ser um PDF valido."
DETAIL_UNSUPPORTED == "Formato nao suportado. Envie PDF ou imagem (JPG/PNG/WEBP) ou 'text'."
MSG_DONE == "Analise concluida com sucesso."
MSG_NO_TEXT == "PDF recebido, mas nao foi possivel extrair texto."
MOTIVO_SCANNED == <<"O PDF parece escaneado (imagem) ou nao possui texto. Envie um PDF com texto selecionavel.">>
RESUMO_EMPTY == <<"Nao foi possivel gerar analise (resposta vazia).">>
RESUMO_UNEXPECTED == <<"Resposta em formato inesperado.">>

-----------------------------------------------------------------------------
(* pdf_service.py *)

\* "\n\n".join(parts)
RECURSIVE JoinBlankLine(_)
JoinBlankLine(parts) ==
    IF parts = <<>> THEN <<>>
    ELSE IF Len(parts) = 1 THEN parts[1]
    ELSE parts[1] \o <<"\n", "\n">> \o JoinBlankLine(Tail(parts))

\* the loop body of extract_text_from_pdf_bytes: the stripped text of one page,
\* "" when extract_text() raises or returns None
PageText(p) == IF p.throws THEN <<>> ELSE Strip(OrEmpty(p.text))

\* PageParts with a fault: a page that raises ends the scan
RECURSIVE PageParts_AbortOnThrow(_)
PageParts_AbortOnThrow(ps) ==
    IF ps = <<>> THEN <<>>
    ELSE IF Head(ps).throws THEN <<>>
    ELSE IF PageText(Head(ps)) # <<>>
         THEN <<PageText(Head(ps))>> \o PageParts_AbortOnThrow(Tail(ps))
         ELSE PageParts_AbortOnThrow(Tail(ps))

\* the parts list after the loop over ps
RECURSIVE PageParts(_)
PageParts(ps) ==
    IF ps = <<>> THEN <<>>
    ELSE IF PageText(Head(ps)) # <<>>
         THEN <<PageText(Head(ps))>> \o PageParts(Tail(ps))
         ELSE PageParts(Tail(ps))

\* ExtractTextFromPdf with a fault: the page count counts the pages that gave text
ExtractTextFromPdf_CountTextPages(d) ==
    <<Strip(JoinBlankLine(PageParts(d.pages))), Len(PageParts(d.pages))>>

\* extract_text_from_pdf_bytes on a stream PdfReader can open, as
\* <<text, pages>>
ExtractTextFromPdf(d) ==
    <<Strip(JoinBlankLine(PageParts(d.pages))), Len(d.pages)>>

-----------------------------------------------------------------------------
(* ai_service.py *)

\* the empty-output fallback of _parse_json_or_fallback
FallbackEmpty(dt) ==
    [tipo_documento |-> dt, resumo |-> RESUMO_EMPTY, pontos_atencao |-> <<>>,
     orientacoes |-> <<>>, quando_procurar_urgencia |-> <<>>,
     perguntas_para_medico |-> <<>>, recusa |-> FALSE,
     motivo_recusa |-> NoneStr]

\* the fallback of _parse_json_or_fallback for JSON that is no object
FallbackUnexpected(dt, obj) ==
    [tipo_documento |-> dt, resumo |-> RESUMO_UNEXPECTED,
     pontos_atencao |-> <<>>, orientacoes |-> <<>>,
     quando_procurar_urgencia |-> <<>>, perguntas_para_medico |-> <<>>,
     recusa |-> FALSE, motivo_recusa |-> NoneStr, _raw |-> obj]

\* length of the raw text kept as the summary
RESUMO_MAX == 2000

\* FallbackUnparsable with a fault: the raw text is not cut
FallbackUnparsable_NoCut(dt, content) ==
    [tipo_documento |-> dt, resumo |-> content,
     pontos_atencao |-> <<>>, orientacoes |-> <<>>,
     quando_procurar_urgencia |-> <<>>, perguntas_para_medico |-> <<>>,
     recusa |-> FALSE, motivo_recusa |-> NoneStr, _raw |-> content]

\* the fallback of _parse_json_or_fallback when json.loads raises
FallbackUnparsable(dt, content) ==
    [tipo_documento |-> dt,
     resumo |-> SubSeq(content, 1, IF Len(content) < RESUMO_MAX THEN Len(content) ELSE RESUMO_MAX),
     pontos_atencao |-> <<>>, orientacoes |-> <<>>,
     quando_procurar_urgencia |-> <<>>, perguntas_para_medico |-> <<>>,
     recusa |-> FALSE, motivo_recusa |-> NoneStr, _raw |-> content]

\* _parse_json_or_fallback(content, doc_type); raw.json is what json.loads
\* makes of the stripped text
\* ParseJsonOrFallback with a fault: the result depends on whether a call to
\* the provider was already made
ParseJsonOrFallback_Stateful(raw, dt) ==
    LET content == Strip(raw.chars)
    IN  IF content = <<>> \/ (\E i \in 1..Len(calls) : calls[i] = "provider")
        THEN FallbackEmpty(dt)
        ELSE IF raw.json.kind = "dict" THEN raw.json.value
        ELSE IF raw.json.kind = "other" THEN FallbackUnexpected(dt, raw.json.value)
        ELSE FallbackUnparsable(dt, content)

ParseJsonOrFallback(raw, dt) ==
    LET content == Strip(raw.chars)
    IN  IF content = <<>> THEN FallbackEmpty(dt)
        ELSE IF raw.json.kind = "dict" THEN raw.json.value
        ELSE IF raw.json.kind = "other" THEN FallbackUnexpected(dt, raw.json.value)
        ELSE FallbackUnparsable(dt, content)

\* KeyConfigured with a fault: the key is not stripped before the test
KeyConfigured_NoStrip(k) == OrEmpty(k) # <<>>

\* the api_key test of _get_client and _ensure_openai_key
KeyConfigured(k) == Strip(OrEmpty(k)) # <<>>

ImageMimes == {S_image_jpeg, S_image_jpg, S_image_png, S_image_webp}

\* smallest image analyze_exam_or_rx_image_bytes accepts
MIN_IMAGE_BYTES == 20

\* smallest payload _read_bytes accepts
MIN_UPLOAD_BYTES == 5

-----------------------------------------------------------------------------
(* The requests and the environment's answers the model draws from *)

Keys == {NoneStr, Some(<<" ">>), Some(<<"s", "k">>)}

ContentTypes ==
    {NoneStr, Some(S_application_pdf), Some(S_image_png),
     Some(<<"I", "M", "A", "G", "E", "/", "J", "P", "E", "G">>),
     Some(<<"a", "p", "p", "l", "i", "c", "a", "t", "i", "o", "n", "/",
            "o", "c", "t", "e", "t", "-", "s", "t", "r", "e", "a", "m">>)}

UploadFilenames ==
    {NoneStr,
     Some(<<"s", "c", "a", "n", ".", "p", "d", "f">>),
     Some(<<"R", "e", "c", "e", "i", "t", "a", ".", "P", "D", "F">>),
     Some(<<"f", "o", "t", "o", ".", "p", "n", "g">>),
     Some(<<"p", "e", "d", "i", "d", "o", ".", "j", "p", "g">>)}

\* what upload.read() returns: nothing, a bare signature, a PDF, an image,
\* an image of a few bytes
Payloads ==
    {<<>>,
     PDF_MAGIC,
     PDF_MAGIC \o <<"-", "1", ".", "4">> \o Pad(16),
     <<"P", "N", "G">> \o Pad(21),
     <<"J", "F", "I", "F">> \o Pad(4)}

NoUpload ==
    [present |-> FALSE, content_type |-> NoneStr, filename |-> NoneStr,
     data |-> <<>>]

Uploads ==
    {NoUpload} \cup
    [present : {TRUE}, content_type : ContentTypes,
     filename : UploadFilenames, data : Payloads]

OriginalFilenames ==
    {NoneStr, Some(<<" ", " ">>), Some(<<"r", "x", ".", "p", "d", "f">>)}

Texts ==
    {NoneStr, Some(<<" ", "\t">>), Some(<<"o", "l", "a">>),
     Some(<<"E", "x", "a", "m", "e", "s", " ", " ", "S", "o", "l", "i", "c",
            "i", "t", "a", "d", "o", "s">>)}

DocumentTypes ==
    {NoneStr, Some(<<"x", "y", "z">>), Some(<<"R", "X">>),
     Some(<<" ", "E", "x", "a", "m", "e", "s", " ">>), Some(S_receita)}

Sources == {Some(<<"a", "p", "p">>)}

\* an UploadFile whose read gives no byte
EmptyUpload ==
    [present |-> TRUE, content_type |-> NoneStr,
     filename |-> Some(<<"v", "a", "z", "i", "o">>), data |-> <<>>]

\* an UploadFile with an image
PngUpload ==
    [present |-> TRUE, content_type |-> Some(S_image_png),
     filename |-> Some(<<"f", "o", "t", "o", ".", "p", "n", "g">>),
     data |-> <<"P", "N", "G">> \o Pad(21)]

\* what one file field of a request with several file fields holds
FieldUploads == {NoUpload, EmptyUpload, PngUpload}

\* the JSON body: None, or a dict that has or lacks the two keys read
NoBody == [isdict |-> FALSE, text |-> NoneStr, document_type |-> NoneStr]

Bodies ==
    {NoBody,
     [isdict |-> TRUE, text |-> NoneStr, document_type |-> NoneStr],
     [isdict |-> TRUE, text |-> Some(<<"o", "l", "a">>),
      document_type |-> Some(<<"R", "X">>)]}

\* requests with one file field at most, and no body
SingleFileForms ==
    [file : Uploads, pdf : {NoUpload}, arquivo : {NoUpload},
     documento : {NoUpload}, text : Texts, document_type : DocumentTypes,
     payload : {NoBody}]

\* requests with several file fields
MultiFileForms ==
    [file : FieldUploads, pdf : FieldUploads, arquivo : FieldUploads,
     documento : FieldUploads, text : {NoneStr},
     document_type : {NoneStr, Some(<<"R", "X">>)}, payload : {NoBody}]

\* requests with a body
BodyForms ==
    [file : {NoUpload}, pdf : {NoUpload}, arquivo : {NoUpload},
     documento : {NoUpload},
     text : {NoneStr, Some(<<>>), Some(<<"o", "l", "a">>),
             Some(<<"5", "m", "g">>), Some(<<"D", "r", ".", " ", "X">>),
             Some(<<"5", "m", "g", " ", "D", "r", ".", " ", "X">>),
             Some(<<"e", "x", "a", "m", "e", "s", " ", "s", "o", "l", "i", "c",
                    "i", "t", "a", "d", "o", "s", " ", "5", "m", "l", " ",
                    "C", "R", "M">>)},
     document_type : {NoneStr, Some(<<"x", "y", "z">>)}, payload : Bodies]

Forms == SingleFileForms \cup MultiFileForms \cup BodyForms

\* what page.extract_text() does on one page: raises, or returns a text
PageOutcomes ==
    {[throws |-> TRUE, text |-> NoneStr],
     [throws |-> FALSE, text |-> Some(<<" ", "\n">>)],
     [throws |-> FALSE, text |-> Some(<<"T", "o", "m", "a", "r", " ", "1", " ", "c", "p">>)],
     [throws |-> FALSE, text |-> Some(<<"H", "E", "M", "O", "G", "R", "A", "M", "A", " ",
                                        "C", "O", "M", "P", "L", "E", "T", "O">>)]}

PageSeqs == UNION {[1..n -> PageOutcomes] : n \in 0..MaxPages}

\* what PdfReader makes of the bytes: a document with its pages, or a
\* structure it cannot read (it raises)
NoPdf == [parsable |-> FALSE, pages |-> <<>>]

PdfDocs == {NoPdf} \cup [parsable : {TRUE}, pages : PageSeqs]

JsonOk(dt) ==
    [tipo_documento |-> dt, resumo |-> <<"o", "k">>,
     pontos_atencao |-> <<<<"a">>>>, orientacoes |-> <<<<"b">>>>,
     quando_procurar_urgencia |-> <<<<"c">>>>,
     perguntas_para_medico |-> <<<<"d">>>>, recusa |-> FALSE,
     motivo_recusa |-> NoneStr]

JsonRefusal ==
    [tipo_documento |-> "indefinido", resumo |-> <<>>,
     pontos_atencao |-> <<>>, orientacoes |-> <<>>,
     quando_procurar_urgencia |-> <<>>, perguntas_para_medico |-> <<>>,
     recusa |-> TRUE, motivo_recusa |-> Some(<<"n", "a", "o">>)]

\* JSON objects the prompt does not ask for but json.loads accepts
JsonRefusalNoReason ==
    [JsonRefusal EXCEPT !.motivo_recusa = NoneStr,
                        !.orientacoes = <<<<"b">>>>]

JsonUnknownType == [JsonOk("indefinido") EXCEPT !.resumo = <<"?">>]

JsonPartial == [resumo |-> <<"o", "k">>]

\* a text that is no JSON and is longer than the summary may be
LongText == <<"\n">> \o [i \in 1..(RESUMO_MAX + 1) |-> IF i = 1 THEN "a" ELSE "z"]

\* resp.output_text with what json.loads makes of it
RawOutputs(dt) ==
    {[chars |-> <<>>, json |-> [kind |-> "invalid"]],
     [chars |-> <<" ", "\n">>, json |-> [kind |-> "invalid"]],
     [chars |-> <<"D", "e", "s", "c", "u", "l", "p", "e">>, json |-> [kind |-> "invalid"]],
     [chars |-> LongText, json |-> [kind |-> "invalid"]],
     [chars |-> <<"[", "1", "]">>, json |-> [kind |-> "other", value |-> <<1>>]],
     [chars |-> <<" ", "{", "ok", "}">>, json |-> [kind |-> "dict", value |-> JsonOk(dt)]],
     [chars |-> <<"{", "refusal", "}">>, json |-> [kind |-> "dict", value |-> JsonRefusal]],
     [chars |-> <<"{", "refusal-no-reason", "}">>, json |-> [kind |-> "dict", value |-> JsonRefusalNoReason]],
     [chars |-> <<"{", "unknown-type", "}">>, json |-> [kind |-> "dict", value |-> JsonUnknownType]],
     [chars |-> <<"{", "partial", "}">>, json |-> [kind |-> "dict", value |-> JsonPartial]]}

NoOutcome == [called |-> FALSE]

\* client.responses.create(...): raises, or returns a response
ProviderOutcomes(dt) ==
    {[called |-> TRUE, raises |-> TRUE]} \cup
    {[called |-> TRUE, raises |-> FALSE, raw |-> r] : r \in RawOutputs(dt)}

-----------------------------------------------------------------------------
(* _handle_request, step by step *)

Workers == 1..NumWorkers

Requests == 1..NumRequests

\* no worker is starting
NoStartup ==
    /\ env_auto = FALSE
    /\ lock_file = FALSE
    /\ tables = TRUE
    /\ painel_users = {}
    /\ wpc = [w \in Workers |-> "done"]
    /\ wexc = [w \in Workers |-> "none"]
    /\ creators = {}

\* no register call is in flight
NoRegister ==
    /\ pacientes = {}
    /\ req = [r \in Requests |->
                 [cpf |-> "none", valid |-> FALSE, hashable |-> FALSE]]
    /\ rpc = [r \in Requests |-> "done"]
    /\ rstatus = [r \in Requests |-> 0]

Init ==
    /\ NoStartup
    /\ NoRegister
    /\ form \in Forms
    /\ env_key \in Keys
    /\ upload = NoUpload
    /\ text = NoneStr
    /\ document_type = NoneStr
    /\ original_filename \in OriginalFilenames
    /\ source \in Sources
    /\ pc = "route"
    /\ filename = <<>>
    /\ meta = <<>>
    /\ data = <<>>
    /\ pdf = NoPdf
    /\ extracted_text = <<>>
    /\ doc_type = ""
    /\ provider_out = NoOutcome
    /\ calls = <<>>
    /\ response = NoResponse

\* a or b on two Optional[str]
OrStr(a, b) == IF Truthy(a) THEN a ELSE b

\* _pick_upload: file or pdf or arquivo or documento; an UploadFile is truthy
PickUpload(file, pdf_, arquivo, documento) ==
    IF file.present THEN file
    ELSE IF pdf_.present THEN pdf_
    ELSE IF arquivo.present THEN arquivo
    ELSE documento

\* route ler (and ler_alias, the same body): the arguments of _handle_request
Ler ==
    /\ pc = "route"
    /\ upload' = PickUpload(form.file, form.pdf, form.arquivo, form.documento)
    /\ LET text_from_json == IF form.payload.isdict THEN form.payload.text
                              ELSE NoneStr
       IN  text' = OrStr(form.text, text_from_json)
    /\ document_type' = IF form.payload.isdict
                        THEN OrStr(form.document_type, form.payload.document_type)
                        ELSE form.document_type
    /\ pc' = "start"
    /\ UNCHANGED <<startup_vars, register_vars, form, env_key, original_filename, source, filename, meta,
                   data, pdf, extracted_text, doc_type, provider_out, calls,
                   response>>

\* (original_filename or (upload.filename if upload else "") or "documento").strip() or "documento"
PickFilename(orig, up) ==
    LET first == IF Truthy(orig) THEN orig.s
                 ELSE IF up.present /\ Truthy(up.filename) THEN up.filename.s
                 ELSE S_documento
    IN  IF Strip(first) # <<>> THEN Strip(first) ELSE S_documento

\* Envelope with a fault: a refusal of the model is turned into a 422
Envelope_RejectRefusal(m, dt, analysis) ==
    IF "recusa" \in DOMAIN analysis /\ analysis.recusa
    THEN HTTPException(422, "motivo_recusa")
    ELSE JSONResponse(200, [ok |-> TRUE, message |-> MSG_DONE,
                            meta |-> m @@ [document_type |-> dt],
                            analysis |-> analysis])

\* the envelope of a finished analysis
Envelope(m, dt, analysis) ==
    JSONResponse(200, [ok |-> TRUE, message |-> MSG_DONE,
                       meta |-> m @@ [document_type |-> dt],
                       analysis |-> analysis])

\* the analysis object of the scanned-PDF answer
ScannedAnalysis ==
    [tipo_documento |-> "indefinido", resumo |-> <<>>,
     pontos_atencao |-> <<>>, orientacoes |-> <<>>,
     quando_procurar_urgencia |-> <<>>, perguntas_para_medico |-> <<>>,
     recusa |-> TRUE, motivo_recusa |-> Some(MOTIVO_SCANNED)]

Finish(r) == pc' = "done" /\ response' = r

\* _ensure_openai_key(), then the filename and meta locals
EnsureOpenaiKey ==
    /\ pc = "start"
    /\ IF ~KeyConfigured(env_key)
       THEN /\ Finish(HTTPException(501, DETAIL_NO_KEY))
            /\ UNCHANGED <<filename, meta>>
       ELSE /\ filename' = PickFilename(original_filename, upload)
            /\ meta' = [filename |-> filename', source |-> source]
            /\ pc' = "branch"
            /\ UNCHANGED response
    /\ UNCHANGED <<startup_vars, register_vars, form, env_key, upload, text, document_type, original_filename,
                   source, data, pdf, extracted_text, doc_type, provider_out,
                   calls>>

\* HasText with a fault: the text is not stripped before the test
HasText_NoStrip == Truthy(text)

\* `if text and text.strip()`
HasText == Truthy(text) /\ Strip(text.s) # <<>>

\* 1) text sent directly: resolve the type, then analyse the text
TextMode ==
    /\ pc = "branch"
    /\ HasText
    /\ extracted_text' = Strip(text.s)
    /\ meta' = meta @@ [mode |-> "text"]
    /\ LET r == ResolveDocType(document_type, filename, extracted_text')
       IN  IF r.ok
           THEN /\ doc_type' = r.value
                /\ pc' = "analyze_text"
                /\ UNCHANGED response
           ELSE /\ Finish(HTTPException(422, DETAIL_REFUSED))
                /\ UNCHANGED doc_type
    /\ UNCHANGED <<startup_vars, register_vars, form, env_key, upload, text, document_type, original_filename,
                   source, filename, data, pdf, provider_out, calls>>

\* 2) `if upload is None`
MissingUpload ==
    /\ pc = "branch"
    /\ ~HasText
    /\ ~upload.present
    /\ Finish(HTTPException(422, DETAIL_REQUIRED))
    /\ UNCHANGED <<startup_vars, register_vars, form, env_key, upload, text, document_type, original_filename,
                   source, filename, meta, data, pdf, extracted_text,
                   doc_type, provider_out, calls>>

\* ReadBytes with a fault: only a read of no byte at all is rejected
ReadBytes_OnlyEmpty ==
    /\ pc = "branch"
    /\ ~HasText
    /\ upload.present
    /\ data' = upload.data
    /\ IF data' = <<>>
       THEN /\ Finish(HTTPException(400, DETAIL_EMPTY))
            /\ UNCHANGED meta
       ELSE /\ meta' = meta @@ [size_bytes |-> Len(data')]
            /\ pc' = "sniff"
            /\ UNCHANGED response
    /\ UNCHANGED <<startup_vars, register_vars, form, env_key, upload, text, document_type, original_filename,
                   source, filename, pdf, extracted_text, doc_type,
                   provider_out, calls>>

\* ReadBytes with a fault: the upload is read although text was sent
ReadBytes_IgnoresText ==
    /\ pc = "branch"
    /\ upload.present
    /\ data' = upload.data
    /\ IF Len(data') < MIN_UPLOAD_BYTES
       THEN /\ Finish(HTTPException(400, DETAIL_EMPTY))
            /\ UNCHANGED meta
       ELSE /\ meta' = meta @@ [size_bytes |-> Len(data')]
            /\ pc' = "sniff"
            /\ UNCHANGED response
    /\ UNCHANGED <<startup_vars, register_vars, form, env_key, upload, text, document_type, original_filename,
                   source, filename, pdf, extracted_text, doc_type,
                   provider_out, calls>>

\* data = await _read_bytes(upload); meta["size_bytes"] = len(data)
ReadBytes ==
    /\ pc = "branch"
    /\ ~HasText
    /\ upload.present
    /\ data' = upload.data
    /\ IF Len(data') < MIN_UPLOAD_BYTES
       THEN /\ Finish(HTTPException(400, DETAIL_EMPTY))
            /\ UNCHANGED meta
       ELSE /\ meta' = meta @@ [size_bytes |-> Len(data')]
            /\ pc' = "sniff"
            /\ UNCHANGED response
    /\ UNCHANGED <<startup_vars, register_vars, form, env_key, upload, text, document_type, original_filename,
                   source, filename, pdf, extracted_text, doc_type,
                   provider_out, calls>>

\* the test of branch 2a
DeclaredPdf ==
    \/ Lower(OrEmpty(upload.content_type)) = S_application_pdf
    \/ EndsWith(Lower(filename), S_dot_pdf)

\* mime of branch 2b
Mime == Lower(OrEmpty(upload.content_type))

\* PdfBranch with a fault: a file named .pdf is trusted, the signature is
\* tested only for the content-type
PdfBranch_TrustFilename ==
    /\ pc = "sniff"
    /\ DeclaredPdf
    /\ IF /\ ~StartsWith(data, PDF_MAGIC)
          /\ ~EndsWith(Lower(filename), S_dot_pdf)
       THEN Finish(HTTPException(400, DETAIL_NOT_PDF))
       ELSE pc' = "extract" /\ UNCHANGED response
    /\ UNCHANGED <<startup_vars, register_vars, form, env_key, upload, text, document_type, original_filename,
                   source, filename, meta, data, pdf, extracted_text,
                   doc_type, provider_out, calls>>

\* PdfBranch with a fault: the signature is not tested
PdfBranch_NoSignatureTest ==
    /\ pc = "sniff"
    /\ DeclaredPdf
    /\ pc' = "extract"
    /\ UNCHANGED <<startup_vars, register_vars, form, env_key, upload, text, document_type, original_filename,
                   source, filename, meta, data, pdf, extracted_text,
                   doc_type, provider_out, calls, response>>

\* 2a) PDF: the signature test
PdfBranch ==
    /\ pc = "sniff"
    /\ DeclaredPdf
    /\ IF ~StartsWith(data, PDF_MAGIC)
       THEN Finish(HTTPException(400, DETAIL_NOT_PDF))
       ELSE pc' = "extract" /\ UNCHANGED response
    /\ UNCHANGED <<startup_vars, register_vars, form, env_key, upload, text, document_type, original_filename,
                   source, filename, meta, data, pdf, extracted_text,
                   doc_type, provider_out, calls>>

\* 2a) PDF: extraction, the scanned-PDF answer, the type
ExtractPdf ==
    /\ pc = "extract"
    /\ \E d \in PdfDocs :
        /\ pdf' = d
        /\ calls' = Append(calls, "extract")
        /\ IF ~d.parsable
           THEN /\ Finish(Unhandled("PdfReadError"))
                /\ UNCHANGED <<extracted_text, meta, doc_type>>
           ELSE LET r == ExtractTextFromPdf(d)
                IN  /\ extracted_text' = r[1]
                    /\ IF Strip(r[1]) = <<>>
                       THEN /\ meta' = meta @@ [pages |-> r[2], mode |-> "pdf"]
                            /\ Finish(JSONResponse(200,
                                   [ok |-> TRUE, message |-> MSG_NO_TEXT,
                                    meta |-> meta',
                                    analysis |-> ScannedAnalysis]))
                            /\ UNCHANGED doc_type
                       ELSE LET t == ResolveDocType(document_type, filename, r[1])
                            IN  /\ meta' = meta @@ [pages |-> r[2], mode |-> "pdf"]
                                /\ IF t.ok
                                   THEN /\ doc_type' = t.value
                                        /\ pc' = "analyze_text"
                                        /\ UNCHANGED response
                                   ELSE /\ Finish(HTTPException(422, DETAIL_REFUSED))
                                        /\ UNCHANGED doc_type
    /\ UNCHANGED <<startup_vars, register_vars, form, env_key, upload, text, document_type, original_filename,
                   source, filename, data, provider_out>>

\* ImageBranch with a fault: the image is analysed although its type was
\* not resolved
ImageBranch_AnalyzeUnresolved ==
    /\ pc = "sniff"
    /\ ~DeclaredPdf
    /\ Mime \in ImageMimes
    /\ meta' = meta @@ [mode |-> "image"]
    /\ LET r == ResolveDocType(document_type, filename, <<>>)
       IN  /\ doc_type' = IF r.ok THEN r.value ELSE doc_type
           /\ pc' = "analyze_image"
           /\ UNCHANGED response
    /\ UNCHANGED <<startup_vars, register_vars, form, env_key, upload, text, document_type, original_filename,
                   source, filename, data, pdf, extracted_text, provider_out,
                   calls>>

\* 2b) image: the type from the hint or the filename
ImageBranch ==
    /\ pc = "sniff"
    /\ ~DeclaredPdf
    /\ Mime \in ImageMimes
    /\ meta' = meta @@ [mode |-> "image"]
    /\ LET r == ResolveDocType(document_type, filename, <<>>)
       IN  IF r.ok
           THEN /\ doc_type' = r.value
                /\ pc' = "analyze_image"
                /\ UNCHANGED response
           ELSE /\ Finish(HTTPException(422, DETAIL_REFUSED))
                /\ UNCHANGED doc_type
    /\ UNCHANGED <<startup_vars, register_vars, form, env_key, upload, text, document_type, original_filename,
                   source, filename, data, pdf, extracted_text, provider_out,
                   calls>>

\* the final raise of _handle_request
Unsupported ==
    /\ pc = "sniff"
    /\ ~DeclaredPdf
    /\ Mime \notin ImageMimes
    /\ Finish(HTTPException(400, DETAIL_UNSUPPORTED))
    /\ UNCHANGED <<startup_vars, register_vars, form, env_key, upload, text, document_type, original_filename,
                   source, filename, meta, data, pdf, extracted_text,
                   doc_type, provider_out, calls>>

\* AnalyzeText with a fault: a failed provider call is tried again
AnalyzeText_Retry ==
    /\ pc = "analyze_text"
    /\ \E o \in ProviderOutcomes(doc_type) :
         /\ provider_out' = o
         /\ calls' = Append(calls, "provider")
         /\ IF o.raises
            THEN IF Len(calls) < 2
                 THEN UNCHANGED <<pc, response>>
                 ELSE Finish(Unhandled("ProviderError"))
            ELSE Finish(Envelope(meta, doc_type,
                                 ParseJsonOrFallback(o.raw, doc_type)))
    /\ UNCHANGED <<startup_vars, register_vars, form, env_key, upload, text, document_type, original_filename,
                   source, filename, meta, data, pdf, extracted_text,
                   doc_type>>

\* analyze_exam_or_rx_text(extracted_text, doc_type) and the envelope
AnalyzeText ==
    /\ pc = "analyze_text"
    /\ IF ~KeyConfigured(env_key)
       THEN /\ Finish(Unhandled("RuntimeError"))
            /\ UNCHANGED <<provider_out, calls>>
       ELSE \E o \in ProviderOutcomes(doc_type) :
            /\ provider_out' = o
            /\ calls' = Append(calls, "provider")
            /\ IF o.raises
               THEN Finish(Unhandled("ProviderError"))
               ELSE Finish(Envelope(meta, doc_type,
                                    ParseJsonOrFallback(o.raw, doc_type)))
    /\ UNCHANGED <<startup_vars, register_vars, form, env_key, upload, text, document_type, original_filename,
                   source, filename, meta, data, pdf, extracted_text,
                   doc_type>>

\* analyze_exam_or_rx_image_bytes(data, mime, doc_type) and the envelope
AnalyzeImage ==
    /\ pc = "analyze_image"
    /\ IF Len(data) < MIN_IMAGE_BYTES
          \/ Lower(Strip(Mime)) \notin ImageMimes
          \/ ~KeyConfigured(env_key)
       THEN /\ Finish(Unhandled("RuntimeError"))
            /\ UNCHANGED <<provider_out, calls>>
       ELSE \E o \in ProviderOutcomes(doc_type) :
            /\ provider_out' = o
            /\ calls' = Append(calls, "provider")
            /\ IF o.raises
               THEN Finish(Unhandled("ProviderError"))
               ELSE Finish(Envelope(meta, doc_type,
                                    ParseJsonOrFallback(o.raw, doc_type)))
    /\ UNCHANGED <<startup_vars, register_vars, form, env_key, upload, text, document_type, original_filename,
                   source, filename, meta, data, pdf, extracted_text,
                   doc_type>>

Next ==
    \/ Ler
    \/ EnsureOpenaiKey
    \/ TextMode
    \/ MissingUpload
    \/ ReadBytes
    \/ PdfBranch
    \/ ExtractPdf
    \/ ImageBranch
    \/ Unsupported
    \/ AnalyzeText
    \/ AnalyzeImage

Spec == Init /\ [][Next]_vars

-----------------------------------------------------------------------------
(* Vocabulary of the properties, stated on the request and its outcome *)

AllWhitespace(s) == \A i \in 1..Len(s) : s[i] \in Whitespace

\* OPENAI_API_KEY is unset or blank
CredentialMissing == ~env_key.some \/ AllWhitespace(env_key.s)

\* the request carries no non-blank text
BlankText == ~text.some \/ AllWhitespace(text.s)

Done == pc = "done"

Rejected4xx ==
    response.kind = "http_error" /\ response.status \in 400..499

Refused422 ==
    response.kind = "http_error" /\ response.status = 422
        /\ response.detail = DETAIL_REFUSED

Success200 == response.kind = "json" /\ response.status = 200

ExtractorCalled == \E i \in 1..Len(calls) : calls[i] = "extract"

ProviderCalled == \E i \in 1..Len(calls) : calls[i] = "provider"

\* the aliases the classifier contract names, per category
ExamAliases == {S_pedido_exame, S_pedido_hyphen_exame, S_exame, S_exames, S_pedido}

PrescriptionAliases == {S_receita, S_rx, S_prescricao, S_prescricao_acc}

\* the category of the hint after lowercasing and whitespace collapsing
HintCategory ==
    LET dt == Norm(OrEmpty(document_type))
    IN  IF dt \in ExamAliases THEN "pedido_exame"
        ELSE IF dt \in PrescriptionAliases THEN "receita"
        ELSE "None"

-----------------------------------------------------------------------------
(* C1: when the document_type hint is, after normalisation, a recognised   *)
(* alias, document-type resolution never fails and the resolved type, in   *)
(* the handler and in the response, is the alias's category, determined by *)
(* the hint alone whatever the filename and the text suggest.              *)
C1_ExplicitTypeWins ==
    HintCategory # "None" =>
        /\ ~Refused422
        /\ pc \in {"analyze_text", "analyze_image"} => doc_type = HintCategory
        /\ (Success200 /\ "document_type" \in DOMAIN response.content.meta)
              => response.content.meta.document_type = HintCategory

\* a hint that won against a heuristic guess of the other category
C1_Witness ==
    /\ Success200
    /\ HintCategory = "receita"
    /\ GuessDocType(filename, extracted_text) = "pedido_exame"
    /\ response.content.meta.document_type = "receita"

-----------------------------------------------------------------------------
\* the provider returned a JSON object whose recusa is true
InvokerRefused ==
    /\ provider_out.called
    /\ ~provider_out.raises
    /\ provider_out.raw.json.kind = "dict"
    /\ "recusa" \in DOMAIN provider_out.raw.json.value
    /\ provider_out.raw.json.value.recusa

(* C2, as claimed: a result of the Analysis Invoker whose recusa is true   *)
(* is answered with a 4xx rejection, never with an HTTP 200 envelope.      *)
C2_RefusalRejected == (Done /\ InvokerRefused) => Rejected4xx

(* C2, amended: a result of the Analysis Invoker whose recusa is true is   *)
(* answered with the HTTP 200 envelope whose analysis is that result,      *)
(* unchanged, recusa and motivo_recusa included, in every mode.            *)
C2_RefusalPassedThrough ==
    (Done /\ InvokerRefused) =>
        /\ Success200
        /\ response.content.analysis = provider_out.raw.json.value
        /\ response.content.analysis.recusa

C2_Witness ==
    /\ Done
    /\ InvokerRefused
    /\ provider_out.raw.json.value.motivo_recusa.some
    /\ meta.mode = "pdf"
    /\ Success200

-----------------------------------------------------------------------------
ListFields ==
    {"pontos_atencao", "orientacoes", "quando_procurar_urgencia",
     "perguntas_para_medico"}

SupportedTypes == {"pedido_exame", "receita"}

\* the AnalysisResult invariant of the data model
WellFormedAnalysis(a) ==
    /\ "recusa" \in DOMAIN a
    /\ IF a.recusa
       THEN /\ "motivo_recusa" \in DOMAIN a /\ a.motivo_recusa.some
            /\ \A f \in ListFields : f \in DOMAIN a /\ a[f] = <<>>
       ELSE "tipo_documento" \in DOMAIN a /\ a.tipo_documento \in SupportedTypes

(* C3, as claimed: every analysis object handed to a caller has a reason   *)
(* and empty lists when recusa is true, and a supported tipo_documento     *)
(* when recusa is false.                                                   *)
C3_AnalysisWellFormed ==
    Success200 => WellFormedAnalysis(response.content.analysis)

-----------------------------------------------------------------------------
\* no page of the document has text: every page raises or is blank
ScannedPdf(d) ==
    /\ d.parsable
    /\ \A i \in 1..Len(d.pages) :
          d.pages[i].throws \/ AllWhitespace(OrEmpty(d.pages[i].text))

(* C4: a PDF whose extraction yields no text is answered with HTTP 200,    *)
(* ok true, a refusal-shaped analysis with a reason, and meta.pages equal  *)
(* to the number of pages of the PDF; the request ends in no HTTP error.   *)
C4_ScannedPdfSoftFailure ==
    (ExtractorCalled /\ ScannedPdf(pdf)) =>
        /\ Done
        /\ Success200
        /\ response.content.ok
        /\ response.content.analysis.recusa
        /\ response.content.analysis.motivo_recusa.some
        /\ response.content.meta.pages = Len(pdf.pages)
        /\ ~ProviderCalled

C4_Witness ==
    /\ ExtractorCalled
    /\ ScannedPdf(pdf)
    /\ Len(pdf.pages) = MaxPages
    /\ \E i \in 1..Len(pdf.pages) : pdf.pages[i].throws
    /\ StartsWith(data, PDF_MAGIC)
    /\ response.content.meta.pages = MaxPages

-----------------------------------------------------------------------------
(* C5: with the credential unset or blank, a request with a file ends in   *)
(* the 501 configuration error whatever the file and the document_type     *)
(* are; the upload is not read, nothing is extracted, the provider is not  *)
(* called.                                                                 *)
C5_MissingCredential501 ==
    (CredentialMissing /\ upload.present) =>
        /\ pc \in {"start", "done"}
        /\ Done => (response.kind = "http_error" /\ response.status = 501
                    /\ response.detail = DETAIL_NO_KEY)
        /\ calls = <<>>
        /\ data = <<>>
        /\ pdf = NoPdf

\* a valid PDF with a valid hint, answered 501 because the key is blank
C5_Witness ==
    /\ Done
    /\ env_key = Some(<<" ">>)
    /\ upload.present
    /\ StartsWith(upload.data, PDF_MAGIC) /\ Len(upload.data) >= MIN_UPLOAD_BYTES
    /\ HintCategory = "receita"
    /\ response.status = 501

-----------------------------------------------------------------------------
\* no file under any alias and no non-blank text
NoPayload == ~upload.present /\ BlankText

(* C6, as claimed: a request with no file and no non-blank text ends in    *)
(* 422 whether or not the credential is configured.                        *)
C6_NoPayload422Always ==
    (Done /\ NoPayload) => response.status = 422

(* C6, amended: the credential is checked first; a request with no file    *)
(* and no non-blank text ends in 422 when the credential is configured and *)
(* in 501 when it is not, and calls nothing.                               *)
C6_NoPayload422WhenConfigured ==
    NoPayload =>
        /\ calls = <<>>
        /\ Done =>
              IF CredentialMissing
              THEN response.kind = "http_error" /\ response.status = 501
              ELSE /\ response.kind = "http_error" /\ response.status = 422
                   /\ response.detail = DETAIL_REQUIRED

C6_Witness ==
    /\ Done
    /\ NoPayload
    /\ text.some
    /\ ~CredentialMissing
    /\ response.status = 422

-----------------------------------------------------------------------------
\* the hint is non-empty and no recognised alias
InvalidHint ==
    Norm(OrEmpty(document_type)) # <<>> /\ HintCategory = "None"

(* C7, as claimed: a request whose document_type is non-empty and not a    *)
(* recognised alias is never answered with a 200 analysis: the hint is not *)
(* ignored in favour of a filename or body-text guess.                     *)
C7_InvalidHintRejected ==
    InvalidHint => ~(Success200 /\ "document_type" \in DOMAIN response.content.meta)

-----------------------------------------------------------------------------
AllKeywords ==
    FilenamePedidoKw \cup FilenameReceitaKw

\* an image upload that reaches branch 2b with no hint and a filename
\* without a category keyword
PlainImageRequest ==
    /\ pc # "start"
    /\ ~CredentialMissing
    /\ BlankText
    /\ upload.present
    /\ Len(upload.data) >= MIN_UPLOAD_BYTES
    /\ Lower(OrEmpty(upload.content_type)) \in ImageMimes
    /\ ~document_type.some
    /\ ~EndsWith(Lower(filename), S_dot_pdf)
    /\ \A k \in AllKeywords : ~Contains(Norm(filename), k)

(* C8, as claimed: an image upload with no document_type and a filename    *)
(* that matches no keyword is not rejected: analysis proceeds under a      *)
(* default category.                                                       *)
C8_ImageDefaultCategory ==
    (Done /\ PlainImageRequest) => ~Rejected4xx

(* C8, amended: for such an image upload the classifier yields             *)
(* indeterminate and the request is refused with 422; no analysis is made  *)
(* and the provider is not called.                                         *)
C8_ImageIndeterminateRefused ==
    PlainImageRequest =>
        /\ pc \in {"branch", "sniff", "done"}
        /\ doc_type = ""
        /\ ~ProviderCalled
        /\ (Done => Refused422)

C8_Witness ==
    /\ Done
    /\ PlainImageRequest
    /\ Len(data) >= MIN_IMAGE_BYTES
    /\ meta.mode = "image"
    /\ Refused422

-----------------------------------------------------------------------------
\* a file request whose payload was read and begins with the signature
SniffedPdfSignature ==
    /\ ~CredentialMissing
    /\ BlankText
    /\ upload.present
    /\ Len(upload.data) >= MIN_UPLOAD_BYTES
    /\ StartsWith(upload.data, PDF_MAGIC)

(* C9, as claimed: a payload that begins with %PDF is handled on the PDF   *)
(* branch (the extractor runs on it) whatever its content-type and         *)
(* filename extension are.                                                 *)
C9_SignatureDecidesPdfBranch ==
    (Done /\ SniffedPdfSignature) => ExtractorCalled

-----------------------------------------------------------------------------
\* an upload without the signature whose content-type is no allowed image type
UnsupportedUpload ==
    /\ upload.present
    /\ ~StartsWith(upload.data, PDF_MAGIC)
    /\ Lower(OrEmpty(upload.content_type)) \notin ImageMimes

(* C10: an upload without the %PDF signature whose content-type is not an  *)
(* allowed image type is never extracted and never sent to the provider,   *)
(* and the file request that carries it ends in a 4xx error.               *)
C10_UnsupportedRejected ==
    UnsupportedUpload =>
        /\ ~ExtractorCalled
        /\ BlankText => ~ProviderCalled
        /\ (Done /\ BlankText /\ ~CredentialMissing) => Rejected4xx

\* declared as PDF, long enough to be read, rejected before extraction
C10_Witness ==
    /\ Done
    /\ UnsupportedUpload
    /\ BlankText
    /\ ~CredentialMissing
    /\ Len(upload.data) >= MIN_UPLOAD_BYTES
    /\ Lower(OrEmpty(upload.content_type)) = S_application_pdf
    /\ response.status = 400

-----------------------------------------------------------------------------
ImageExtensions ==
    {<<".", "p", "n", "g">>, <<".", "j", "p", "g">>,
     <<".", "j", "p", "e", "g">>, <<".", "w", "e", "b", "p">>}

\* a file request that reaches the sniffing with an image file name, no PDF
\* signature and a content-type that is missing or generic
GenericTypeImageName ==
    /\ ~CredentialMissing
    /\ BlankText
    /\ upload.present
    /\ Len(upload.data) >= MIN_IMAGE_BYTES
    /\ ~StartsWith(upload.data, PDF_MAGIC)
    /\ Lower(OrEmpty(upload.content_type)) \in
          {<<>>, <<"a", "p", "p", "l", "i", "c", "a", "t", "i", "o", "n", "/",
                   "o", "c", "t", "e", "t", "-", "s", "t", "r", "e", "a", "m">>}
    /\ \E e \in ImageExtensions : EndsWith(Lower(filename), e)

(* C11, as claimed: without the PDF signature and with a missing or        *)
(* generic content-type, a file named with an image extension is taken as  *)
(* an image and goes to image-mode analysis instead of being rejected as   *)
(* unsupported.                                                            *)
C11_ExtensionFallback ==
    (Done /\ GenericTypeImageName) =>
        ~(response.kind = "http_error" /\ response.detail = DETAIL_UNSUPPORTED)

-----------------------------------------------------------------------------
ProviderFailed == provider_out.called /\ provider_out.raises

(* C12, as claimed: a failure of the provider call is converted into a     *)
(* synthesized result or a well-defined 5xx error; no provider exception   *)
(* leaves the Analysis Invoker and the request handler unhandled.          *)
C12_ProviderFailureConverted ==
    (Done /\ ProviderFailed) => response.kind # "unhandled"

-----------------------------------------------------------------------------
\* page i of d gives text: it does not raise and is not blank
TextPage(d, i) ==
    ~d.pages[i].throws /\ ~AllWhitespace(OrEmpty(d.pages[i].text))

(* C13: on a PDF the reader can open, the extractor does not raise; the    *)
(* page count it returns is the number of pages; the text is empty exactly *)
(* when every page raises or is blank; the text of every page that gives   *)
(* text is in the result, whatever the pages before it did.                *)
C13_PageFailuresTolerated ==
    (calls = <<"extract">> /\ pdf.parsable) =>
        /\ response.kind # "unhandled"
        /\ meta.pages = Len(pdf.pages)
        /\ (extracted_text = <<>>) <=> ScannedPdf(pdf)
        /\ \A i \in 1..Len(pdf.pages) :
              TextPage(pdf, i) =>
                  Contains(extracted_text, Strip(pdf.pages[i].text.s))

\* every page of a PDF of MaxPages pages raises
C13_Witness ==
    /\ calls = <<"extract">>
    /\ pdf.parsable
    /\ Len(pdf.pages) = MaxPages
    /\ \A i \in 1..Len(pdf.pages) : pdf.pages[i].throws
    /\ extracted_text = <<>>
    /\ meta.pages = MaxPages
    /\ Success200

-----------------------------------------------------------------------------
(* C14, as claimed: on a byte stream with the signature whose structure    *)
(* cannot be read, the extractor returns an empty text and raises nothing  *)
(* to the orchestrator.                                                    *)
C14_UnparsableIsEmptyText ==
    (ExtractorCalled /\ ~pdf.parsable) =>
        (response.kind # "unhandled" /\ extracted_text = <<>>)

-----------------------------------------------------------------------------
MetaFields == {"filename", "size_bytes", "pages", "source", "document_type"}

AnalysisFields ==
    {"tipo_documento", "resumo", "recusa", "motivo_recusa"} \cup ListFields

(* C15, as claimed: every HTTP 200 response has ok, message, a meta with   *)
(* filename, size_bytes, pages, source and document_type, and an analysis  *)
(* with the eight fields.                                                  *)
C15_StableEnvelope ==
    Success200 =>
        /\ {"ok", "message", "meta", "analysis"} \subseteq DOMAIN response.content
        /\ MetaFields \subseteq DOMAIN response.content.meta
        /\ AnalysisFields \subseteq DOMAIN response.content.analysis

-----------------------------------------------------------------------------
\* the file fields of the request, in the order of _pick_upload
FileFields == <<form.file, form.pdf, form.arquivo, form.documento>>

\* a file field that was supplied and holds at least one byte
NonEmptyField(u) == u.present /\ u.data # <<>>

(* C16, as claimed: the upload handed to the handler is the first          *)
(* non-empty file field in the order file, pdf, arquivo, documento; a      *)
(* supplied but empty field before it does not shadow it.                  *)
C16_FirstNonEmptyWins ==
    (pc # "route" /\ \E i \in 1..4 : NonEmptyField(FileFields[i])) =>
        LET first == CHOOSE i \in 1..4 :
                        /\ NonEmptyField(FileFields[i])
                        /\ \A j \in 1..(i - 1) : ~NonEmptyField(FileFields[j])
        IN  upload = FileFields[first]

-----------------------------------------------------------------------------
(* C17: when the request carries non-blank text, the upload is never read, *)
(* the extractor never runs, the handler never enters the file branches,   *)
(* and a 200 answer is the text-mode answer, with nothing taken from the   *)
(* upload's bytes.                                                         *)
C17_TextSkipsUpload ==
    ~BlankText =>
        /\ data = <<>>
        /\ pdf = NoPdf
        /\ ~ExtractorCalled
        /\ pc \in {"start", "branch", "analyze_text", "done"}
        /\ Success200 =>
              /\ response.content.meta.mode = "text"
              /\ "size_bytes" \notin DOMAIN response.content.meta
              /\ "pages" \notin DOMAIN response.content.meta

\* text sent together with a PDF: the text is analysed
C17_Witness ==
    /\ Success200
    /\ ~BlankText
    /\ upload.present
    /\ StartsWith(upload.data, PDF_MAGIC) /\ Len(upload.data) >= MIN_UPLOAD_BYTES
    /\ Lower(OrEmpty(upload.content_type)) = S_application_pdf
    /\ ProviderCalled

-----------------------------------------------------------------------------
S_HEMOGRAMA_COMPLETO ==
    <<"H", "E", "M", "O", "G", "R", "A", "M", "A", " ",
      "C", "O", "M", "P", "L", "E", "T", "O">>

\* a PDF whose only text is HEMOGRAMA COMPLETO, extracted with no hint and
\* a filename without a category keyword
HemogramaRequest ==
    /\ calls # <<>> /\ calls[1] = "extract"
    /\ pdf.parsable
    /\ \E i \in 1..Len(pdf.pages) : TextPage(pdf, i)
    /\ \A i \in 1..Len(pdf.pages) :
          TextPage(pdf, i) => pdf.pages[i].text.s = S_HEMOGRAMA_COMPLETO
    /\ ~document_type.some
    /\ \A k \in AllKeywords : ~Contains(Norm(filename), k)

-----------------------------------------------------------------------------
\* the provider answered with a text that is empty or blank
EmptyOutput ==
    provider_out.called /\ ~provider_out.raises
        /\ AllWhitespace(provider_out.raw.chars)

\* the provider answered with a text that json.loads rejects
UnparsableOutput ==
    provider_out.called /\ ~provider_out.raises
        /\ ~AllWhitespace(provider_out.raw.chars)
        /\ provider_out.raw.json.kind = "invalid"

\* the first n elements of s
Prefix(s, n) == SubSeq(s, 1, IF Len(s) < n THEN Len(s) ELSE n)

(* C19: for a model output that is empty, blank or no valid JSON, the      *)
(* analysis returned is the synthesized one: recusa false, motivo_recusa   *)
(* null, the four lists empty, tipo_documento the resolved type, and       *)
(* resumo the no-analysis notice (empty output) or the first 2000          *)
(* characters of the stripped text (unparsable output).                    *)
C19_FallbackShape ==
    (Done /\ (EmptyOutput \/ UnparsableOutput)) =>
        /\ Success200
        /\ LET a == response.content.analysis
           IN  /\ a.recusa = FALSE
               /\ a.motivo_recusa = NoneStr
               /\ \A f \in ListFields : a[f] = <<>>
               /\ a.tipo_documento = doc_type
               /\ doc_type \in SupportedTypes
               /\ a.resumo = IF EmptyOutput THEN RESUMO_EMPTY
                             ELSE Prefix(Strip(provider_out.raw.chars), 2000)

\* an unparsable output longer than the summary
C19_Witness ==
    /\ Done
    /\ UnparsableOutput
    /\ Len(Strip(provider_out.raw.chars)) > 2000
    /\ Len(response.content.analysis.resumo) = 2000
    /\ response.content.analysis.resumo[1] = "a"

-----------------------------------------------------------------------------
ProviderCalls == Cardinality({i \in 1..Len(calls) : calls[i] = "provider"})

(* C20: a request makes at most one call to the provider, and a failed     *)
(* call ends the request: it is not tried again.                           *)
C20_OneProviderCall ==
    /\ ProviderCalls <= 1
    /\ ProviderFailed => (Done /\ ProviderCalls = 1)

C20_Witness ==
    /\ ProviderFailed
    /\ Done
    /\ ProviderCalls = 1
    /\ meta.mode = "text"

-----------------------------------------------------------------------------
\* a request whose upload is read and gives fewer than 5 bytes
ShortRead ==
    /\ upload.present
    /\ ~CredentialMissing
    /\ BlankText
    /\ Len(upload.data) < 5

(* C21: an upload whose read gives fewer than 5 bytes is rejected with the *)
(* 400 intake error; the handler never reaches the sniffing, the           *)
(* extractor, the type resolution or the provider with it.                 *)
C21_ShortReadRejected ==
    ShortRead =>
        /\ pc \in {"start", "branch", "done"}
        /\ calls = <<>>
        /\ doc_type = ""
        /\ "mode" \notin DOMAIN meta
        /\ Done => response = HTTPException(400, DETAIL_EMPTY)

\* four bytes, declared as a PDF
C21_Witness ==
    /\ Done
    /\ ShortRead
    /\ Len(upload.data) = 4
    /\ StartsWith(upload.data, PDF_MAGIC)
    /\ response = HTTPException(400, DETAIL_EMPTY)

-----------------------------------------------------------------------------
\* the provider answered and the parsing step made the analysis
Parsed == Done /\ provider_out.called /\ ~provider_out.raises

-----------------------------------------------------------------------------
\* the signals of the classifier in their priority order, for filename fn
\* and body text t, both normalised
Signals(fn, t) ==
    << [hit |-> \E k \in FilenamePedidoKw : Contains(fn, k), cat |-> "pedido_exame"],
       [hit |-> \E k \in FilenameReceitaKw : Contains(fn, k), cat |-> "receita"],
       [hit |-> \E k \in pedido_kw : Contains(t, k), cat |-> "pedido_exame"],
       [hit |-> \E k \in receita_kw : Contains(t, k), cat |-> "receita"],
       [hit |-> /\ \E d \in {S_mg, S_ml} : Contains(t, d)
                /\ \E q \in {S_dr, S_dra, S_crm} : Contains(t, q),
        cat |-> "receita"] >>

\* the category of the first signal that matches, "None" when none does
FirstMatch(sig) ==
    IF \E i \in 1..Len(sig) : sig[i].hit
    THEN sig[CHOOSE i \in 1..Len(sig) :
                sig[i].hit /\ \A j \in 1..(i - 1) : ~sig[j].hit].cat
    ELSE "None"

\* the type has just been resolved, or refused, without a valid hint
Guessed ==
    /\ pc \in {"analyze_text", "analyze_image"} \/ (Done /\ Refused422)
    /\ HintCategory = "None"

(* C23: without a valid hint the resolved type is the category of the      *)
(* first signal that matches, in the order filename keywords, body         *)
(* keywords, weak heuristic; when no signal matches the request is         *)
(* refused.                                                                *)
C23_FirstSignalWins ==
    Guessed =>
        LET expected == FirstMatch(Signals(Norm(filename), Norm(extracted_text)))
        IN  IF expected = "None"
            THEN doc_type = "" /\ Refused422
            ELSE doc_type = expected

\* the filename says prescription, the body says exam
C23_Witness ==
    /\ Guessed
    /\ \E k \in FilenameReceitaKw : Contains(Norm(filename), k)
    /\ \E k \in pedido_kw : Contains(Norm(extracted_text), k)
    /\ doc_type = "receita"
    /\ pc = "analyze_text"

-----------------------------------------------------------------------------
\* the handler reached the file branch and read the upload
FileBranchReached ==
    /\ ~CredentialMissing
    /\ BlankText
    /\ upload.present
    /\ Len(upload.data) >= 5
    /\ pc \notin {"route", "start", "branch"}

\* the upload is declared as a PDF, by its content-type or by the name the
\* handler uses (original_filename first, then the upload's own)
DeclaredAsPdf ==
    \/ Lower(OrEmpty(upload.content_type)) =
          <<"a", "p", "p", "l", "i", "c", "a", "t", "i", "o", "n", "/", "p", "d", "f">>
    \/ EndsWith(Lower(filename), <<".", "p", "d", "f">>)

(* C24: the extractor is called only on the bytes of the upload and only   *)
(* when they begin with %PDF; an upload declared as PDF whose bytes lack   *)
(* the signature ends in the 400 of the signature test, with no            *)
(* extraction.                                                             *)
C24_ExtractOnlySignedPdf ==
    /\ (pc = "extract" \/ ExtractorCalled) =>
          /\ data = upload.data
          /\ StartsWith(data, <<"%", "P", "D", "F">>)
    /\ (Done /\ FileBranchReached /\ DeclaredAsPdf
          /\ ~StartsWith(upload.data, <<"%", "P", "D", "F">>)) =>
          /\ response = HTTPException(400, DETAIL_NOT_PDF)
          /\ ~ExtractorCalled

\* an image sent with original_filename rx.pdf
C24_Witness ==
    /\ Done
    /\ FileBranchReached
    /\ Truthy(original_filename)
    /\ EndsWith(Lower(Strip(original_filename.s)), <<".", "p", "d", "f">>)
    /\ Mime \in ImageMimes
    /\ ~StartsWith(upload.data, <<"%", "P", "D", "F">>)
    /\ response = HTTPException(400, DETAIL_NOT_PDF)

-----------------------------------------------------------------------------
\* the scanned-PDF answer
ScannedAnswer == Success200 /\ response.content.message = MSG_NO_TEXT

\* the request ended in an intake, configuration or scanned-PDF outcome
HaltedEarly ==
    Done /\ (Rejected4xx
             \/ (response.kind = "http_error" /\ response.status = 501)
             \/ ScannedAnswer)

(* C25: a request that ends in a 4xx, in the 501 or in the scanned-PDF     *)
(* answer has made no provider call; the provider is called only with the *)
(* credential configured, the type resolved, and either non-blank text or  *)
(* an upload that was read and sniffed as a PDF with text or as an image.  *)
C25_ErrorsHaltBeforeProvider ==
    /\ HaltedEarly => ProviderCalls = 0
    /\ ProviderCalled =>
          /\ ~CredentialMissing
          /\ doc_type \in SupportedTypes
          /\ \/ meta.mode = "text" /\ ~BlankText
             \/ /\ meta.mode = "pdf"
                /\ FileBranchReached /\ data = upload.data
                /\ calls[1] = "extract"
                /\ ~AllWhitespace(extracted_text)
             \/ /\ meta.mode = "image"
                /\ FileBranchReached /\ data = upload.data
                /\ Lower(OrEmpty(upload.content_type)) \in ImageMimes

\* a refusal of the type after the extraction
C25_Witness ==
    /\ Done
    /\ Refused422
    /\ ExtractorCalled
    /\ ProviderCalls = 0

-----------------------------------------------------------------------------
\* an image with an allowed content-type and a resolved type, of 5 to 19 bytes
NearEmptyImage ==
    /\ FileBranchReached
    /\ "mode" \in DOMAIN meta /\ meta.mode = "image"
    /\ doc_type \in SupportedTypes
    /\ Len(data) >= 5 /\ Len(data) < 20

(* C26, as claimed: a near-empty image is rejected with a 4xx intake       *)
(* error, never with an unhandled exception or a 5xx.                      *)
C26_NearEmptyImage4xx ==
    (Done /\ NearEmptyImage) => Rejected4xx

-----------------------------------------------------------------------------
(* Startup of the workers: on_startup, _safe_create_all_once, ensure_admin *)

\* no request to the document endpoint is in flight
NoRequest ==
    /\ form = [file |-> NoUpload, pdf |-> NoUpload, arquivo |-> NoUpload,
               documento |-> NoUpload, text |-> NoneStr,
               document_type |-> NoneStr, payload |-> NoBody]
    /\ env_key = NoneStr
    /\ upload = NoUpload
    /\ text = NoneStr
    /\ document_type = NoneStr
    /\ original_filename = NoneStr
    /\ source = NoneStr
    /\ pc = "done"
    /\ filename = <<>>
    /\ meta = <<>>
    /\ data = <<>>
    /\ pdf = NoPdf
    /\ extracted_text = <<>>
    /\ doc_type = ""
    /\ provider_out = NoOutcome
    /\ calls = <<>>
    /\ response = NoResponse

DEFAULT_ADMIN_CPF == "27080591813"

\* the row ensure_admin adds, in the session of worker w
DefaultAdmin(w) ==
    [cpf |-> DEFAULT_ADMIN_CPF, password_hash |-> "hash(123456)",
     must_change_password |-> TRUE, added_by |-> w]

\* an admin row left by an earlier start, its password changed since
ChangedAdmin ==
    [cpf |-> DEFAULT_ADMIN_CPF, password_hash |-> "hash(changed)",
     must_change_password |-> FALSE, added_by |-> 0]

\* db.query(PainelUser).filter(PainelUser.cpf == DEFAULT_ADMIN_CPF).first()
AdminRows == {u \in painel_users : u.cpf = DEFAULT_ADMIN_CPF}

\* the machine before the workers start: the lock file and the tables may be
\* left from an earlier start, the admin row too
InitStartup ==
    /\ NoRequest
    /\ NoRegister
    /\ env_auto \in BOOLEAN
    /\ lock_file \in BOOLEAN
    /\ tables \in BOOLEAN
    /\ painel_users \in IF tables THEN {{}, {ChangedAdmin}} ELSE {{}}
    /\ wpc = [w \in Workers |-> "start"]
    /\ wexc = [w \in Workers |-> "none"]
    /\ creators = {}

\* SafeCreateAllOnce with a fault: the lock file is opened without O_EXCL
SafeCreateAllOnce_NoExcl(w) ==
    /\ wpc[w] = "start"
    /\ IF ~env_auto
       THEN /\ wpc' = [wpc EXCEPT ![w] = "seed"]
            /\ UNCHANGED <<lock_file, creators>>
       ELSE /\ lock_file' = TRUE
            /\ creators' = creators \cup {w}
            /\ wpc' = [wpc EXCEPT ![w] = "create_all"]
    /\ UNCHANGED <<env_auto, tables, painel_users, wexc>>
    /\ UNCHANGED <<handler_vars, register_vars>>

\* _safe_create_all_once up to the lock: os.open(O_CREAT | O_EXCL | O_WRONLY)
SafeCreateAllOnce(w) ==
    /\ wpc[w] = "start"
    /\ IF ~env_auto \/ lock_file
       THEN /\ wpc' = [wpc EXCEPT ![w] = "seed"]
            /\ UNCHANGED <<lock_file, creators>>
       ELSE /\ lock_file' = TRUE
            /\ creators' = creators \cup {w}
            /\ wpc' = [wpc EXCEPT ![w] = "create_all"]
    /\ UNCHANGED <<env_auto, tables, painel_users, wexc>>
    /\ UNCHANGED <<handler_vars, register_vars>>

\* Base.metadata.create_all(bind=engine, checkfirst=True) has finished
CreateAll(w) ==
    /\ wpc[w] = "create_all"
    /\ tables' = TRUE
    /\ wpc' = [wpc EXCEPT ![w] = "seed"]
    /\ UNCHANGED <<env_auto, lock_file, painel_users, wexc, creators>>
    /\ UNCHANGED <<handler_vars, register_vars>>

\* ensure_admin: the query and `if admin: return`
EnsureAdminQuery(w) ==
    /\ wpc[w] = "seed"
    /\ IF ~tables
       THEN /\ wexc' = [wexc EXCEPT ![w] = "NoSuchTable"]
            /\ wpc' = [wpc EXCEPT ![w] = "raised"]
       ELSE /\ wpc' = [wpc EXCEPT ![w] = IF AdminRows # {} THEN "done"
                                         ELSE "commit"]
            /\ UNCHANGED wexc
    /\ UNCHANGED <<env_auto, lock_file, tables, painel_users, creators>>
    /\ UNCHANGED <<handler_vars, register_vars>>

\* ensure_admin: db.add(admin); db.commit(), under the unique index on cpf
EnsureAdminCommit(w) ==
    /\ wpc[w] = "commit"
    /\ IF AdminRows # {}
       THEN /\ wexc' = [wexc EXCEPT ![w] = "IntegrityError"]
            /\ wpc' = [wpc EXCEPT ![w] = "raised"]
            /\ UNCHANGED painel_users
       ELSE /\ painel_users' = painel_users \cup {DefaultAdmin(w)}
            /\ wpc' = [wpc EXCEPT ![w] = "done"]
            /\ UNCHANGED wexc
    /\ UNCHANGED <<env_auto, lock_file, tables, creators>>
    /\ UNCHANGED <<handler_vars, register_vars>>

NextStartup ==
    \E w \in Workers :
        \/ SafeCreateAllOnce(w)
        \/ CreateAll(w)
        \/ EnsureAdminQuery(w)
        \/ EnsureAdminCommit(w)

SpecStartup == InitStartup /\ [][NextStartup]_vars

-----------------------------------------------------------------------------
\* worker w takes the lock step of _safe_create_all_once
LockStep(w) == wpc[w] = "start" /\ wpc'[w] # "start"

(* C27: at most one worker goes on to create_all; a worker that takes the  *)
(* lock step with AUTO_CREATE_TABLES=1 creates the lock file and goes on   *)
(* to create_all when the file is absent, and skips the creation when the  *)
(* file exists; with AUTO_CREATE_TABLES not 1 no worker goes on to         *)
(* create_all and the lock file is left as it is.                          *)
C27_OneCreator ==
    /\ [](/\ Cardinality(creators) <= 1
          /\ \A w \in Workers : wpc[w] = "create_all" => w \in creators
          /\ ~env_auto => creators = {})
    /\ [][/\ ~env_auto => lock_file' = lock_file
          /\ \A w \in Workers :
                (env_auto /\ LockStep(w)) =>
                    IF lock_file
                    THEN creators' = creators /\ wpc'[w] = "seed"
                    ELSE /\ creators' = {w}
                         /\ lock_file'
                         /\ wpc'[w] = "create_all"]_vars

\* every worker has taken the lock step, one went on to create_all
C27_Witness ==
    /\ env_auto
    /\ \A w \in Workers : wpc[w] # "start"
    /\ Cardinality(creators) = 1
    /\ \E w \in Workers : w \notin creators
    /\ tables

-----------------------------------------------------------------------------
\* worker w has run the query of ensure_admin
RanSeed(w) == wpc[w] \in {"commit", "done", "raised"}

(* C28, as claimed: with AUTO_CREATE_TABLES=1, whenever a worker has run   *)
(* ensure_admin the tables have been created.                              *)
C28_SeedAfterCreateAll ==
    env_auto => \A w \in Workers : RanSeed(w) => tables

-----------------------------------------------------------------------------
(* C29, as claimed: with the tables in place, no ensure_admin call raises, *)
(* at most one row has the admin CPF, exactly one once a worker is done,   *)
(* and a row left by an earlier start is not modified.                     *)
C29_SeedSafe ==
    tables =>
        /\ \A w \in Workers : wexc[w] # "IntegrityError"
        /\ Cardinality(AdminRows) <= 1
        /\ (\E w \in Workers : wpc[w] = "done") => Cardinality(AdminRows) = 1
        /\ \A u \in AdminRows : u.added_by = 0 => u = ChangedAdmin

-----------------------------------------------------------------------------
(* Registration of patients: register of api_auth *)

\* the CPFs of the register calls, after only_digits
CPFs == {"52998224725", "11144477735"}

\* a patient registered before the calls, active or not
EarlierPaciente(active) ==
    [cpf |-> "52998224725", is_active |-> active, added_by |-> 0]

\* valid: the body passes the tests of lines 113-138; hashable: hash_password
\* accepts the password
InitRegister ==
    /\ NoRequest
    /\ NoStartup
    /\ pacientes \in {{}, {EarlierPaciente(TRUE)}, {EarlierPaciente(FALSE)}}
    /\ req \in [Requests -> [cpf : CPFs, valid : BOOLEAN, hashable : BOOLEAN]]
    /\ rpc = [r \in Requests |-> "start"]
    /\ rstatus = [r \in Requests |-> 0]

\* the validations of CPF, phone, CEP, password and company
RegisterValidate(r) ==
    /\ rpc[r] = "start"
    /\ IF ~req[r].valid
       THEN /\ rstatus' = [rstatus EXCEPT ![r] = 400]
            /\ rpc' = [rpc EXCEPT ![r] = "done"]
       ELSE /\ rpc' = [rpc EXCEPT ![r] = "exists"]
            /\ UNCHANGED rstatus
    /\ UNCHANGED <<pacientes, req>>
    /\ UNCHANGED <<handler_vars, startup_vars>>

\* exists = db.query(Paciente).filter(Paciente.cpf == cpf).first()
RegisterExists(r) ==
    /\ rpc[r] = "exists"
    /\ IF \E p \in pacientes : p.cpf = req[r].cpf
       THEN /\ rstatus' = [rstatus EXCEPT ![r] = 409]
            /\ rpc' = [rpc EXCEPT ![r] = "done"]
       ELSE /\ rpc' = [rpc EXCEPT ![r] = "commit"]
            /\ UNCHANGED rstatus
    /\ UNCHANGED <<pacientes, req>>
    /\ UNCHANGED <<handler_vars, startup_vars>>

\* hash_password, db.add(paciente), db.commit() under the unique index on
\* cpf; an IntegrityError is not caught and the framework answers 500
RegisterCommit(r) ==
    /\ rpc[r] = "commit"
    /\ rpc' = [rpc EXCEPT ![r] = "done"]
    /\ IF ~req[r].hashable
       THEN /\ rstatus' = [rstatus EXCEPT ![r] = 400]
            /\ UNCHANGED pacientes
       ELSE IF \E p \in pacientes : p.cpf = req[r].cpf
       THEN /\ rstatus' = [rstatus EXCEPT ![r] = 500]
            /\ UNCHANGED pacientes
       ELSE /\ pacientes' = pacientes \cup
                   {[cpf |-> req[r].cpf, is_active |-> TRUE, added_by |-> r]}
            /\ rstatus' = [rstatus EXCEPT ![r] = 200]
    /\ UNCHANGED req
    /\ UNCHANGED <<handler_vars, startup_vars>>

NextRegister ==
    \E r \in Requests :
        \/ RegisterValidate(r)
        \/ RegisterExists(r)
        \/ RegisterCommit(r)

SpecRegister == InitRegister /\ [][NextRegister]_vars

\* the call of r ended and its CPF is registered, by another call or before
EndedOnRegisteredCpf(r) ==
    /\ rpc[r] = "done"
    /\ req[r].valid /\ req[r].hashable
    /\ \E p \in pacientes : p.cpf = req[r].cpf /\ p.added_by # r

(* C30, as claimed: no two patients share a CPF, and a register call with  *)
(* a valid body for a CPF that is registered ends with 409 and adds no     *)
(* row, also when two calls for the same CPF run concurrently.             *)
C30_DuplicateCpf409 ==
    /\ \A p, q \in pacientes : p.cpf = q.cpf => p = q
    /\ \A r \in Requests :
          EndedOnRegisteredCpf(r) =>
              /\ rstatus[r] = 409
              /\ \A p \in pacientes : p.added_by # r

====
